---- MODULE Spec2Model ----
(***************************************************************************)
(* A model of the baby-tracking web application:                          *)
(*   - src/src/lib/records.ts: addRecord, getSnapshots, updateRecord,     *)
(*     deleteRecord over the Firestore collection 'records';              *)
(*   - src/next.config.mjs (lines 24-279): the AddRecordModal component;   *)
(*   - src/src/components/FloatingActionButton.tsx;                        *)
(*   - src/src/app/baby/edit/page.tsx: EditBabyProfilePage.                *)
(* Text is modelled as a sequence of one-character strings wherever the   *)
(* code looks inside it (tags, the tag filter) and as a TLA+ string       *)
(* elsewhere.  A document or a Partial<RecordData> is a function from     *)
(* field names to values whose domain is the set of fields present.      *)
(***************************************************************************)
EXTENDS Integers, Sequences, FiniteSets, TLC

VARIABLES
    records,        \* the Firestore collection 'records': document id -> fields
    lastCall,       \* the last call of addRecord/updateRecord/deleteRecord noted, and its outcome
    \* AddRecordModal, one instance at a time
    auth,           \* useAuth(): [user, userProfile]
    mounted,        \* whether the parent renders the modal
    recordType,     \* prop recordType
    existingRecord, \* prop existingRecord: Null or {id, ...data}
    isSubmitting,
    isProcessing,
    error,
    form,           \* notes, tags, amount, foodItems, reaction, measurementType, value, recordDate
    imageFile,
    imagePreview,
    submitPc,       \* the await handleSubmit is suspended at, or "idle"
    submitJob,      \* what the suspended handleSubmit closed over
    deletesInFlight,\* the handleDelete calls awaiting deleteRecord
    compressPc,     \* the await handleImageChange is suspended at, or "idle"
    onCloseCalls,   \* the handlers that called onClose, in order
    backendLog,     \* the backend operations of the last handleSubmit and whether each succeeded
    submitClicked,  \* whether the last step was an invocation of handleSubmit
    \* a caller paging through getSnapshots
    qArgs,          \* the familyId and the options of the first call of the paging
    qPages,         \* what the calls of the paging returned, in order
    \* the tags field of the modal for one snapshot
    tagsText,       \* the text of the tags input
    tagsStored,     \* the record data {tags} handleSubmit passed on for storing, or Null
    tagsReopened,   \* the existing record {tags} the modal was opened on, or Null
    \* FloatingActionButton
    isOpen,
    emitted,        \* the arguments of the calls of onAddRecord, in order
    fabClick,       \* the button of the last click
    wasOpen,        \* isOpen before the last click
    \* EditBabyProfilePage and the profile document it edits
    babyDoc,        \* the document of baby_01, or Null
    route,          \* where the router is
    isEditing,
    babyProfile,
    name,
    birthDate,      \* '' is <<>>, 'yyyy-MM-dd' is <<day>>
    gender,
    gestationalAgeWeeks,
    isLoading,
    isSaving,
    pageError,      \* the error state of the page
    loadPc,         \* where the load of useEffect is
    savePc,         \* the await handleSave is suspended at, or "idle"
    saveJob,        \* the profileData the suspended handleSave built
    docBeforeSave   \* babyDoc when the last handleSave was invoked

apiVars == <<records, lastCall>>
modalVars == <<auth, mounted, recordType, existingRecord, isSubmitting, isProcessing,
               error, form, imageFile, imagePreview, submitPc, submitJob,
               deletesInFlight, compressPc, onCloseCalls, backendLog, submitClicked>>
queryVars == <<qArgs, qPages>>
tagVars == <<tagsText, tagsStored, tagsReopened>>
fabVars == <<isOpen, emitted, fabClick, wasOpen>>
babyVars == <<babyDoc, route, isEditing, babyProfile, name, birthDate, gender,
              gestationalAgeWeeks, isLoading, isSaving, pageError, loadPc, savePc,
              saveJob, docBeforeSave>>
pageVars == <<tagVars, fabVars, babyVars>>
vars == <<records, lastCall, modalVars, queryVars, pageVars>>

----------------------------------------------------------------------------
(* Bounds of the model *)

MaxRecords == 2         \* documents the collection holds at most
MaxDeletesInFlight == 1 \* handleDelete calls awaiting deleteRecord at a time
MaxQueryDocs == 2       \* documents of a collection that getSnapshots is tried on
MaxExtraDocs == 1       \* snapshots beyond DefaultPerPage in the large collections
MaxPerPage == 2         \* the largest options.perPage passed
TicksPerDay == 2        \* clock ticks in a day
DaysPerMonth == 2       \* days in a month of the model's calendar

(* Constants of the program and its platform *)

MonthsPerYear == 12     \* Date.getMonth() ranges over 0..11
EpochYear == 1970       \* Date.getFullYear() of Timestamp 0
DefaultPerPage == 20    \* options.perPage || 20

----------------------------------------------------------------------------
(* JavaScript values *)

Null == [null |-> TRUE]
Undefined == [undefined |-> TRUE]
NoError == ""
EmptyObject == [f \in {} |-> TRUE]

Has(obj, f) == f \in DOMAIN obj

\* !obj.f for a string field: absent (undefined) or the empty string
Falsy(obj, f) == ~Has(obj, f) \/ obj[f] = ""

\* { ...base, ...over }
Merge(base, over) ==
    [f \in DOMAIN base \cup DOMAIN over |->
        IF f \in DOMAIN over THEN over[f] ELSE base[f]]

----------------------------------------------------------------------------
(* firebase/firestore Timestamp, Date and serverTimestamp() *)

TicksPerMonth == TicksPerDay * DaysPerMonth
TicksPerYear == MonthsPerYear * TicksPerMonth

Timestamp(t) == [seconds |-> t]
ServerTimestampSentinel == [sentinel |-> "serverTimestamp"]
IsTimestamp(v) == DOMAIN v = {"seconds"}

\* timestamp.toDate().getFullYear()
getFullYear(ts) == EpochYear + (ts.seconds \div TicksPerYear)
\* timestamp.toDate().getMonth(): 0..11
getMonth(ts) == (ts.seconds \div TicksPerMonth) % MonthsPerYear

\* Instants of the model: the first and the last tick of the first year, the
\* first tick of the second year and a tick of its second month; the server
\* clock stands in the second month of the second year.
SampleTimes == {0, TicksPerYear - 1, TicksPerYear, TicksPerYear + TicksPerMonth + 1}
ServerTimes == {TicksPerYear + TicksPerMonth}

----------------------------------------------------------------------------
(* The Firestore collection 'records' *)

DocIds == {ToString(i) : i \in 1..MaxRecords}
EmptyId == ""

\* The place of a document name in the order of document names: the model's
\* names are numerals, ordered by their number.
IdRank(id) ==
    CHOOSE i \in 1..(DefaultPerPage + MaxExtraDocs + MaxQueryDocs + MaxRecords) :
        ToString(i) = id

NoRecords == [id \in {} |-> EmptyObject]

\* What the backend answers to one write: whether it accepts it, the id it
\* generates for a new document and the server time it stamps.  The backend
\* accepts no new document once the collection holds MaxRecords.
AddEnvs(store) ==
    [dbOk : BOOLEAN, newId : DocIds \ DOMAIN store, serverNow : ServerTimes]
    \cup [dbOk : {FALSE}, newId : {EmptyId}, serverNow : ServerTimes]

\* What it answers to a write of an existing document.
WriteEnvs == [dbOk : BOOLEAN, serverNow : ServerTimes]

\* The server replaces the serverTimestamp() sentinel by its own time.
ResolveSentinels(data, serverNow) ==
    [f \in DOMAIN data |->
        IF f = "timestamp" /\ ~IsTimestamp(data[f]) THEN Timestamp(serverNow) ELSE data[f]]

\* addDoc(collection(db, 'records'), data)
addDoc(store, data, env) ==
    IF env.dbOk /\ env.newId \in DocIds \ DOMAIN store
    THEN [ok |-> TRUE, id |-> env.newId,
          records |-> [id \in DOMAIN store \cup {env.newId} |->
                          IF id = env.newId THEN ResolveSentinels(data, env.serverNow)
                          ELSE store[id]]]
    ELSE [ok |-> FALSE, id |-> EmptyId, records |-> store]

\* updateDoc(doc(db, 'records', recordId), data): rejected when the document
\* does not exist, otherwise the given fields are set and the rest kept.
updateDoc(store, recordId, data, env) ==
    IF env.dbOk /\ recordId \in DOMAIN store
    THEN [ok |-> TRUE,
          records |-> [id \in DOMAIN store |->
                          IF id = recordId
                          THEN ResolveSentinels(Merge(store[id], data), env.serverNow)
                          ELSE store[id]]]
    ELSE [ok |-> FALSE, records |-> store]

\* deleteDoc(doc(db, 'records', recordId)): deleting a missing document succeeds.
deleteDoc(store, recordId, env) ==
    IF env.dbOk
    THEN [ok |-> TRUE, records |-> [id \in DOMAIN store \ {recordId} |-> store[id]]]
    ELSE [ok |-> FALSE, records |-> store]

----------------------------------------------------------------------------
(* records.ts: addRecord *)

ErrIdsRequired == "Family ID and Creator ID are required."
ErrNoProfile == "User profile is not available."
ErrAddFailed == "Failed to add record."
ErrUpdateIdRequired == "Record ID is required for updating."
ErrUpdateFailed == "Failed to update record."
ErrDeleteIdRequired == "Record ID is required for deletion."
ErrDeleteFailed == "Failed to delete record."

\* lines 76-88: the object handed to addDoc
addRecord_dataToSave(recordData, userProfile) ==
    LET dataToSave ==
            Merge(recordData,
                  [babyId |-> "baby_01",
                   creatorName |-> userProfile.displayName,
                   timestamp |-> IF Has(recordData, "timestamp")
                                 THEN recordData.timestamp
                                 ELSE ServerTimestampSentinel])
    IN  IF /\ Has(recordData, "type")
           /\ recordData.type = "snapshot"
           /\ IsTimestamp(dataToSave.timestamp)
        THEN Merge(dataToSave,
                   [year |-> getFullYear(dataToSave.timestamp),
                    month |-> getMonth(dataToSave.timestamp) + 1])
        ELSE dataToSave

\* A bug addRecord could have: the document is written before the arguments
\* are validated.
addRecord_writeFirst(store, recordData, userProfile, env) ==
    LET profile == IF userProfile = Null THEN [displayName |-> "null"] ELSE userProfile
        w == addDoc(store, addRecord_dataToSave(recordData, profile), env)
    IN  IF Falsy(recordData, "familyId") \/ Falsy(recordData, "creatorId")
        THEN [records |-> w.records, thrown |-> ErrIdsRequired, dbCalls |-> 1]
        ELSE IF userProfile = Null
        THEN [records |-> w.records, thrown |-> ErrNoProfile, dbCalls |-> 1]
        ELSE IF w.ok
        THEN [records |-> w.records, thrown |-> NoError, dbCalls |-> 1]
        ELSE [records |-> w.records, thrown |-> ErrAddFailed, dbCalls |-> 1]

\* lines 66-97: the collection after the call, the message of the Error it
\* throws (NoError when it returns) and the number of database calls it made
addRecord(store, recordData, userProfile, env) ==
    IF Falsy(recordData, "familyId") \/ Falsy(recordData, "creatorId")
    THEN [records |-> store, thrown |-> ErrIdsRequired, dbCalls |-> 0]
    ELSE IF userProfile = Null
    THEN [records |-> store, thrown |-> ErrNoProfile, dbCalls |-> 0]
    ELSE LET w == addDoc(store, addRecord_dataToSave(recordData, userProfile), env)
         IN  IF w.ok
             THEN [records |-> w.records, thrown |-> NoError, dbCalls |-> 1]
             ELSE [records |-> w.records, thrown |-> ErrAddFailed, dbCalls |-> 1]

----------------------------------------------------------------------------
(* records.ts: updateRecord, deleteRecord *)

\* A bug updateRecord could have: setDoc without merge, which replaces the
\* whole document by updatedData.
updateRecord_replace(store, recordId, updatedData, env) ==
    IF recordId = EmptyId
    THEN [records |-> store, thrown |-> ErrUpdateIdRequired, dbCalls |-> 0]
    ELSE IF env.dbOk /\ recordId \in DOMAIN store
    THEN [records |-> [id \in DOMAIN store |->
                          IF id = recordId THEN updatedData ELSE store[id]],
          thrown |-> NoError, dbCalls |-> 1]
    ELSE [records |-> store, thrown |-> ErrUpdateFailed, dbCalls |-> 1]

\* lines 158-170
updateRecord(store, recordId, updatedData, env) ==
    IF recordId = EmptyId
    THEN [records |-> store, thrown |-> ErrUpdateIdRequired, dbCalls |-> 0]
    ELSE LET w == updateDoc(store, recordId, updatedData, env)
         IN  IF w.ok
             THEN [records |-> w.records, thrown |-> NoError, dbCalls |-> 1]
             ELSE [records |-> w.records, thrown |-> ErrUpdateFailed, dbCalls |-> 1]

\* lines 172-184
deleteRecord(store, recordId, env) ==
    IF recordId = EmptyId
    THEN [records |-> store, thrown |-> ErrDeleteIdRequired, dbCalls |-> 0]
    ELSE LET w == deleteDoc(store, recordId, env)
         IN  IF w.ok
             THEN [records |-> w.records, thrown |-> NoError, dbCalls |-> 1]
             ELSE [records |-> w.records, thrown |-> ErrDeleteFailed, dbCalls |-> 1]

----------------------------------------------------------------------------
(* Text: a string the code looks inside is a sequence of characters *)

FullWidthComma == "U+FF0C"
TagA == <<"a">>
TagB == <<"b">>
WhitespaceChars == {" ", "\t"}
\* the characters /[,\uFF0C\s]/ matches
SeparatorChars == {",", FullWidthComma} \cup WhitespaceChars

\* str.split(/[,\uFF0C\s]+/): the pieces between the maximal runs of
\* separators; a leading or a trailing run leaves an empty piece, and the
\* empty string splits into one empty piece.
RECURSIVE splitFrom(_, _, _)
splitFrom(str, i, piece) ==
    IF i > Len(str) THEN <<piece>>
    ELSE IF str[i] \in SeparatorChars
    THEN LET rest == {j \in i..Len(str) : str[j] \notin SeparatorChars}
             next == IF rest = {} THEN Len(str) + 1
                     ELSE CHOOSE j \in rest : \A k \in rest : j <= k
         IN  <<piece>> \o splitFrom(str, next, <<>>)
    ELSE splitFrom(str, i + 1, Append(piece, str[i]))

split(str) == splitFrom(str, 1, <<>>)

\* A bug the tag parser could have: splitting at commas only.
RECURSIVE splitAtCommas(_, _, _)
splitAtCommas(str, i, piece) ==
    IF i > Len(str) THEN <<piece>>
    ELSE IF str[i] \in {",", FullWidthComma}
    THEN <<piece>> \o splitAtCommas(str, i + 1, <<>>)
    ELSE splitAtCommas(str, i + 1, Append(piece, str[i]))

parseTags_commasOnly(tags) ==
    SelectSeq(splitAtCommas(tags, 1, <<>>), LAMBDA tag : Len(tag) > 0)

\* line 148: tags.split(/[,\uFF0C\s]+/).filter(tag => tag.length > 0)
parseTags(tags) == SelectSeq(split(tags), LAMBDA tag : Len(tag) > 0)

\* line 68: existingRecord.tags.join(', ')
RECURSIVE join(_)
join(list) ==
    IF list = <<>> THEN <<>>
    ELSE IF Len(list) = 1 THEN list[1]
    ELSE list[1] \o <<",", " ">> \o join(Tail(list))

\* String.prototype.trim()
RECURSIVE trim(_)
trim(str) ==
    IF str = <<>> THEN str
    ELSE IF str[1] \in WhitespaceChars THEN trim(Tail(str))
    ELSE IF str[Len(str)] \in WhitespaceChars THEN trim(SubSeq(str, 1, Len(str) - 1))
    ELSE str

----------------------------------------------------------------------------
(* Dates of the modal *)

\* dateToString(date): the UTC calendar day, 'yyyy-MM-dd', as a day number
dateToString(ts) == ts.seconds \div TicksPerDay
\* Timestamp.fromDate(new Date('yyyy-MM-dd')): midnight of that day
TimestampFromDateString(day) == Timestamp(day * TicksPerDay)

\* new Date() on the client
ClientTimes == {TicksPerYear + TicksPerMonth + 1}

\* Number(x) of a form field holding '' (the empty sequence) or a number <<n>>
Number(x) == IF x = <<>> THEN 0 ELSE x[1]
\* record.f || '' for a numeric field
NumberOrEmpty(obj, f) == IF Has(obj, f) /\ obj[f] # 0 THEN <<obj[f]>> ELSE <<>>
\* record.f || dflt for a string field
StringOr(obj, f, dflt) == IF Falsy(obj, f) THEN dflt ELSE obj[f]

----------------------------------------------------------------------------
(* AddRecordModal (next.config.mjs lines 24-279) *)

CreatableRecordTypes ==
    {"feeding", "diaper", "sleep", "solid-food", "measurement", "snapshot"}

ErrUnverified == "cannot verify the user identity"          \* line 134
ErrNoImage == "please choose an image to upload"            \* line 143
ErrSaveFailed == "saving failed, try again later"           \* line 183
ErrDeleteFailedUi == "deleting failed, try again later"     \* line 125
ErrFileType == "only JPG or PNG files are accepted"         \* line 86
ErrCompress == "cannot process this image"                  \* line 112
ErrUpload == "storage: upload failed"

\* useAuth(): signed in with two households, signed out, signed in with no
\* household, signed in with a profile that lacks familyIDs
AuthStates ==
    {[user |-> [uid |-> "u1"],
      userProfile |-> [displayName |-> "Amy", familyIDs |-> <<"f1", "f2">>]],
     [user |-> Null, userProfile |-> Null],
     [user |-> [uid |-> "u1"], userProfile |-> [displayName |-> "Amy", familyIDs |-> <<>>]],
     [user |-> [uid |-> "u1"], userProfile |-> [displayName |-> "Amy"]]}

NotesInputs == {"note"}
TagsInputs == {<<>>, <<"a", ",", " ", "b">>}
ImageFiles == {[type |-> "image/png"], [type |-> "image/gif"]}
AllowedTypes == {"image/jpeg", "image/png"}

\* lines 54-63: the useState defaults
DefaultForm(now) ==
    [notes |-> "", tags |-> <<>>, amount |-> <<>>, foodItems |-> "",
     reaction |-> "good", measurementType |-> "weight", value |-> <<>>,
     recordDate |-> dateToString(Timestamp(now))]

\* lines 65-78: the effect that copies existingRecord into the form
FormOf(existing, now) ==
    IF existing = Null THEN DefaultForm(now)
    ELSE [notes |-> StringOr(existing, "notes", ""),
          tags |-> IF Has(existing, "tags") THEN join(existing.tags) ELSE <<>>,
          amount |-> NumberOrEmpty(existing, "amount"),
          foodItems |-> StringOr(existing, "foodItems", ""),
          reaction |-> StringOr(existing, "reaction", "good"),
          measurementType |-> StringOr(existing, "measurementType", "weight"),
          value |-> NumberOrEmpty(existing, "value"),
          recordDate |-> IF Has(existing, "timestamp")
                         THEN dateToString(existing.timestamp)
                         ELSE dateToString(Timestamp(now))]

\* { id: doc.id, ...doc.data() }
WithId(id, data) == Merge([id |-> id], data)

\* line 133
Unverified(a) ==
    \/ a.user = Null
    \/ a.userProfile = Null
    \/ ~Has(a.userProfile, "familyIDs")
    \/ Len(a.userProfile.familyIDs) = 0

\* A bug handleSubmit could have: the type set before the branch on
\* existingRecord, so that an update carries it too.
RecordDataOf_withType(type, f) ==
    LET recordData == [notes |-> f.notes, type |-> type]
    IN  CASE type = "feeding" -> Merge(recordData, [amount |-> Number(f.amount)])
          [] type = "solid-food" ->
                Merge(recordData, [foodItems |-> f.foodItems, reaction |-> f.reaction])
          [] type = "measurement" ->
                Merge(recordData,
                      [measurementType |-> f.measurementType,
                       value |-> Number(f.value),
                       timestamp |-> TimestampFromDateString(f.recordDate)])
          [] OTHER -> recordData

\* lines 158-170: the fields of a record that is not a snapshot
RecordDataOf(type, f) ==
    LET recordData == [notes |-> f.notes]
    IN  CASE type = "feeding" -> Merge(recordData, [amount |-> Number(f.amount)])
          [] type = "solid-food" ->
                Merge(recordData, [foodItems |-> f.foodItems, reaction |-> f.reaction])
          [] type = "measurement" ->
                Merge(recordData,
                      [measurementType |-> f.measurementType,
                       value |-> Number(f.value),
                       timestamp |-> TimestampFromDateString(f.recordDate)])
          [] OTHER -> recordData

\* lines 149-156: the snapshot handed to addRecord
SnapshotDataOf(f, imageUrl, a) ==
    [type |-> "snapshot", familyId |-> a.userProfile.familyIDs[1],
     creatorId |-> a.user.uid, notes |-> f.notes, imageUrl |-> imageUrl,
     tags |-> parseTags(f.tags)]

\* lines 175-177: the fields added to a new record that is not a snapshot
NewRecordDataOf(type, f, a) ==
    Merge(RecordDataOf(type, f),
          [type |-> type, familyId |-> a.userProfile.familyIDs[1],
           creatorId |-> a.user.uid])

\* uploadImage(imageFile, user.uid) of '@/lib/storage': a URL, or a rejection
\* with an Error or with another value
UploadOutcomes == {"url", "Error", "other"}

\* line 183: err instanceof Error ? err.message : the default text
ErrorTextOf(outcome) == IF outcome = "Error" THEN ErrUpload ELSE ErrSaveFailed

\* no call of records.ts noted
NoCall == [op |-> "none", thrown |-> NoError, dbCalls |-> 0]

\* the parent's onClose: the call is noted and the modal is taken down
OnClose(who) ==
    /\ onCloseCalls' = Append(onCloseCalls, who)
    /\ mounted' = FALSE

\* A bug handleSubmit could have: onClose() placed in the finally block.
handleSubmit_closeAlways(thrown) ==
    [close |-> TRUE, error |-> IF thrown = NoError THEN NoError ELSE thrown]

\* lines 181-187: what handleSubmit does once its backend calls are over:
\* whether it calls onClose and the error text it sets (NoError: none)
handleSubmit_end(thrown) ==
    IF thrown = NoError
    THEN [close |-> TRUE, error |-> NoError]
    ELSE [close |-> FALSE, error |-> thrown]

\* The modal is opened by its parent for a new record of a type or for an
\* existing record of the collection; a new instance starts from the defaults.
OpenModal ==
    /\ ~mounted
    /\ submitPc = "idle" /\ deletesInFlight = 0 /\ compressPc = "idle"
    /\ \E type \in CreatableRecordTypes,
          existing \in {Null} \cup {WithId(id, records[id]) : id \in DOMAIN records},
          now \in ClientTimes :
        /\ existing # Null => existing.type = type
        /\ mounted' = TRUE
        /\ recordType' = type
        /\ existingRecord' = existing
        /\ form' = FormOf(existing, now)
    /\ isSubmitting' = FALSE /\ isProcessing' = FALSE /\ error' = NoError
    /\ imageFile' = Null /\ imagePreview' = Null
    /\ submitJob' = Null /\ onCloseCalls' = <<>> /\ backendLog' = <<>>
    /\ lastCall' = NoCall
    /\ UNCHANGED <<records, auth, submitPc, deletesInFlight, compressPc>>
    /\ submitClicked' = FALSE
    /\ UNCHANGED <<queryVars, pageVars>>

\* lines 233 and 248/254: typing in the tags and the notes fields
SetNotes ==
    /\ mounted
    /\ \E text \in NotesInputs : form' = [form EXCEPT !.notes = text]
    /\ UNCHANGED <<records, lastCall, auth, mounted, recordType, existingRecord,
                   isSubmitting, isProcessing, error, imageFile, imagePreview,
                   submitPc, submitJob, deletesInFlight, compressPc, onCloseCalls,
                   backendLog>>
    /\ submitClicked' = FALSE
    /\ UNCHANGED <<queryVars, pageVars>>

SetTags ==
    /\ mounted /\ recordType = "snapshot"
    /\ ~(isProcessing \/ isSubmitting)
    /\ \E text \in TagsInputs : form' = [form EXCEPT !.tags = text]
    /\ UNCHANGED <<records, lastCall, auth, mounted, recordType, existingRecord,
                   isSubmitting, isProcessing, error, imageFile, imagePreview,
                   submitPc, submitJob, deletesInFlight, compressPc, onCloseCalls,
                   backendLog>>
    /\ submitClicked' = FALSE
    /\ UNCHANGED <<queryVars, pageVars>>

\* lines 80-93: handleImageChange up to its await
ImageChange ==
    /\ mounted /\ recordType = "snapshot"
    /\ ~(isProcessing \/ isSubmitting)
    /\ \E file \in ImageFiles :
        IF file.type \notin AllowedTypes
        THEN /\ error' = ErrFileType
             /\ UNCHANGED <<isProcessing, compressPc>>
        ELSE /\ isProcessing' = TRUE
             /\ error' = NoError
             /\ compressPc' = "imageCompression"
    /\ UNCHANGED <<records, lastCall, auth, mounted, recordType, existingRecord,
                   isSubmitting, form, imageFile, imagePreview, submitPc, submitJob,
                   deletesInFlight, onCloseCalls, backendLog>>
    /\ submitClicked' = FALSE
    /\ UNCHANGED <<queryVars, pageVars>>

\* lines 102-115: imageCompression settles
ImageCompressed ==
    /\ compressPc = "imageCompression"
    /\ \E ok \in BOOLEAN :
        IF ok
        THEN /\ imageFile' = [type |-> "image/jpeg"]
             /\ imagePreview' = [blob |-> "image/jpeg"]
             /\ error' = error
        ELSE /\ error' = ErrCompress
             /\ UNCHANGED <<imageFile, imagePreview>>
    /\ isProcessing' = FALSE
    /\ compressPc' = "idle"
    /\ UNCHANGED <<records, lastCall, auth, mounted, recordType, existingRecord,
                   isSubmitting, form, submitPc, submitJob, deletesInFlight,
                   onCloseCalls, backendLog>>
    /\ submitClicked' = FALSE
    /\ UNCHANGED <<queryVars, pageVars>>

\* line 265: the cancel button
Cancel ==
    /\ mounted
    /\ ~(isSubmitting \/ isProcessing)
    /\ OnClose("cancel")
    /\ UNCHANGED <<records, lastCall, auth, recordType, existingRecord, isSubmitting,
                   isProcessing, error, form, imageFile, imagePreview, submitPc,
                   submitJob, deletesInFlight, compressPc, backendLog>>
    /\ submitClicked' = FALSE
    /\ UNCHANGED <<queryVars, pageVars>>

\* lines 119-122: the delete button, and window.confirm answered yes
DeleteClick ==
    /\ mounted
    /\ existingRecord # Null
    /\ ~isSubmitting
    /\ deletesInFlight < MaxDeletesInFlight
    /\ deletesInFlight' = deletesInFlight + 1
    /\ UNCHANGED <<records, lastCall, auth, mounted, recordType, existingRecord,
                   isSubmitting, isProcessing, error, form, imageFile, imagePreview,
                   submitPc, submitJob, compressPc, onCloseCalls, backendLog>>
    /\ submitClicked' = FALSE
    /\ UNCHANGED <<queryVars, pageVars>>

\* lines 122-127: deleteRecord settles
DeleteSettles ==
    /\ deletesInFlight > 0
    /\ deletesInFlight' = deletesInFlight - 1
    /\ \E env \in WriteEnvs :
        LET r == deleteRecord(records, existingRecord.id, env)
        IN  /\ records' = r.records
            /\ IF r.thrown = NoError
               THEN /\ OnClose("delete")
                    /\ error' = error
               ELSE /\ error' = ErrDeleteFailedUi
                    /\ UNCHANGED <<onCloseCalls, mounted>>
    /\ UNCHANGED <<lastCall, auth, recordType, existingRecord, isSubmitting,
                   isProcessing, form, imageFile, imagePreview, submitPc, submitJob,
                   compressPc, backendLog>>
    /\ submitClicked' = FALSE
    /\ UNCHANGED <<queryVars, pageVars>>

\* lines 131-180: handleSubmit up to its first await, or to its early return
SubmitClick ==
    /\ mounted
    /\ ~(isSubmitting \/ isProcessing)
    /\ submitClicked' = TRUE
    /\ UNCHANGED <<queryVars, pageVars>>
    /\ backendLog' = <<>>
    /\ IF Unverified(auth)
       THEN /\ error' = ErrUnverified
            /\ UNCHANGED <<isSubmitting, submitPc, submitJob>>
       ELSE IF recordType = "snapshot" /\ imageFile = Null
       THEN /\ error' = ErrNoImage
            /\ isSubmitting' = FALSE
            /\ UNCHANGED <<submitPc, submitJob>>
       ELSE /\ error' = NoError
            /\ isSubmitting' = TRUE
            /\ submitJob' = [form |-> form, imageFile |-> imageFile]
            /\ submitPc' = IF recordType = "snapshot" THEN "uploadImage"
                           ELSE IF existingRecord # Null THEN "updateRecord"
                           ELSE "addRecord"
    /\ lastCall' = NoCall
    /\ UNCHANGED <<records, auth, mounted, recordType, existingRecord,
                   isProcessing, form, imageFile, imagePreview, deletesInFlight,
                   compressPc, onCloseCalls>>

\* the end of handleSubmit: lines 181-187
SubmitEnds(thrown) ==
    LET e == handleSubmit_end(thrown)
    IN  /\ IF e.close THEN OnClose("submit") ELSE UNCHANGED <<onCloseCalls, mounted>>
        /\ error' = IF e.error = NoError THEN error ELSE e.error
        /\ isSubmitting' = FALSE
        /\ submitPc' = "idle"
        /\ submitJob' = Null

\* line 147: uploadImage settles; on success handleSubmit goes on to addRecord
UploadSettles ==
    /\ submitPc = "uploadImage"
    /\ \E outcome \in UploadOutcomes :
        IF outcome = "url"
        THEN /\ backendLog' = Append(backendLog, [op |-> "uploadImage", ok |-> TRUE])
             /\ submitJob' = Merge(submitJob, [imageUrl |-> outcome])
             /\ submitPc' = "addRecord"
             /\ UNCHANGED <<onCloseCalls, mounted, error, isSubmitting>>
        ELSE /\ backendLog' = Append(backendLog, [op |-> "uploadImage", ok |-> FALSE])
             /\ SubmitEnds(ErrorTextOf(outcome))
    /\ UNCHANGED <<records, lastCall, auth, recordType, existingRecord, isProcessing,
                   form, imageFile, imagePreview, deletesInFlight, compressPc>>
    /\ submitClicked' = FALSE
    /\ UNCHANGED <<queryVars, pageVars>>

\* lines 149-156 and 178: addRecord settles
AddSettles ==
    /\ submitPc = "addRecord"
    /\ \E env \in AddEnvs(records) :
        LET recordData == IF recordType = "snapshot"
                          THEN SnapshotDataOf(submitJob.form, submitJob.imageUrl, auth)
                          ELSE NewRecordDataOf(recordType, submitJob.form, auth)
            r == addRecord(records, recordData, auth.userProfile, env)
        IN  /\ records' = r.records
            /\ backendLog' = Append(backendLog,
                                    [op |-> "addRecord", ok |-> r.thrown = NoError])
            /\ SubmitEnds(r.thrown)
    /\ UNCHANGED <<lastCall, auth, recordType, existingRecord, isProcessing, form,
                   imageFile, imagePreview, deletesInFlight, compressPc>>
    /\ submitClicked' = FALSE
    /\ UNCHANGED <<queryVars, pageVars>>

\* line 173: updateRecord settles
UpdateSettles ==
    /\ submitPc = "updateRecord"
    /\ \E env \in WriteEnvs :
        LET r == updateRecord(records, existingRecord.id,
                              RecordDataOf(recordType, submitJob.form), env)
        IN  /\ records' = r.records
            /\ lastCall' = [op |-> "updateRecord", recordId |-> existingRecord.id,
                            updatedData |-> RecordDataOf(recordType, submitJob.form),
                            thrown |-> r.thrown, dbCalls |-> r.dbCalls]
            /\ backendLog' = Append(backendLog,
                                    [op |-> "updateRecord", ok |-> r.thrown = NoError])
            /\ SubmitEnds(r.thrown)
    /\ UNCHANGED <<auth, recordType, existingRecord, isProcessing, form,
                   imageFile, imagePreview, deletesInFlight, compressPc>>
    /\ submitClicked' = FALSE
    /\ UNCHANGED <<queryVars, pageVars>>

ApiIdle == lastCall = NoCall

QueryIdle == qArgs = Null /\ qPages = <<>>

ModalIdle ==
    /\ mounted = FALSE
    /\ recordType = "feeding"
    /\ existingRecord = Null
    /\ isSubmitting = FALSE /\ isProcessing = FALSE /\ error = NoError
    /\ form = DefaultForm(0)
    /\ imageFile = Null /\ imagePreview = Null
    /\ submitPc = "idle" /\ submitJob = Null
    /\ deletesInFlight = 0 /\ compressPc = "idle"
    /\ onCloseCalls = <<>> /\ backendLog = <<>>
    /\ submitClicked = FALSE

TagsIdle == tagsText = <<>> /\ tagsStored = Null /\ tagsReopened = Null

\* FloatingActionButton.tsx line 13: useState(false)
FabIdle == isOpen = FALSE /\ emitted = <<>> /\ fabClick = "none" /\ wasOpen = FALSE

BabyPageRoute == "/baby/edit"
DefaultGestationalAgeWeeks == 40

\* page.tsx lines 19-30: the state of the page as constructed
BabyPageConstructed ==
    /\ route = BabyPageRoute
    /\ isEditing = FALSE
    /\ babyProfile = Null
    /\ name = "" /\ birthDate = <<>> /\ gender = "boy"
    /\ gestationalAgeWeeks = DefaultGestationalAgeWeeks
    /\ isLoading = TRUE /\ isSaving = FALSE /\ pageError = NoError
    /\ loadPc = "mounted" /\ savePc = "idle" /\ saveJob = Null
    /\ docBeforeSave = Null

BabyIdle == babyDoc = Null /\ BabyPageConstructed

PagesIdle == TagsIdle /\ FabIdle /\ BabyIdle

Init ==
    /\ records = NoRecords
    /\ ApiIdle
    /\ auth \in AuthStates
    /\ ModalIdle
    /\ QueryIdle
    /\ PagesIdle

Next ==
    \/ OpenModal
    \/ SetNotes
    \/ SetTags
    \/ ImageChange
    \/ ImageCompressed
    \/ Cancel
    \/ DeleteClick
    \/ DeleteSettles
    \/ SubmitClick
    \/ UploadSettles
    \/ AddSettles
    \/ UpdateSettles

Spec == Init /\ [][Next]_vars

----------------------------------------------------------------------------
(* firebase/firestore queries over the collection *)

Range(seq) == {seq[i] : i \in 1..Len(seq)}
Min(a, b) == IF a <= b THEN a ELSE b

Where(field, op, value) == [kind |-> "where", field |-> field, op |-> op, value |-> value]
OrderBy(field, dir) == [kind |-> "orderBy", field |-> field, dir |-> dir]
Limit(n) == [kind |-> "limit", n |-> n]
StartAfter(snapshot) == [kind |-> "startAfter", doc |-> snapshot]

\* where(field, '==', value) and where(field, 'array-contains', value): a
\* document without the field matches neither
Satisfies(data, c) ==
    /\ Has(data, c.field)
    /\ IF c.op = "==" THEN data[c.field] = c.value
       ELSE c.value \in Range(data[c.field])

\* a comes before b under orderBy(o.field, o.dir), a Timestamp field; equal
\* values are ordered by document name in the same direction
Precedes(a, b, o) ==
    LET ka == a.data[o.field].seconds
        kb == b.data[o.field].seconds
    IN  IF o.dir = "desc"
        THEN ka > kb \/ (ka = kb /\ IdRank(a.id) > IdRank(b.id))
        ELSE ka < kb \/ (ka = kb /\ IdRank(a.id) < IdRank(b.id))

RECURSIVE SortDocs(_, _)
SortDocs(docs, o) ==
    IF docs = {} THEN <<>>
    ELSE LET first == CHOOSE a \in docs : \A b \in docs \ {a} : Precedes(a, b, o)
         IN  <<first>> \o SortDocs(docs \ {first}, o)

\* getDocs(query(recordsRef, ...constraints)): the document snapshots the
\* query selects, in its order
getDocs(store, constraints) ==
    LET idx == 1..Len(constraints)
        o == constraints[CHOOSE i \in idx : constraints[i].kind = "orderBy"]
        n == constraints[CHOOSE i \in idx : constraints[i].kind = "limit"].n
        selected == {[id |-> id, data |-> store[id]] :
                        id \in {d \in DOMAIN store :
                                  /\ \A i \in idx : constraints[i].kind = "where"
                                                        => Satisfies(store[d], constraints[i])
                                  /\ Has(store[d], o.field)}}
        afterCursor == {d \in selected :
                          \A i \in idx : constraints[i].kind = "startAfter"
                                            => Precedes(constraints[i].doc, d, o)}
        sorted == SortDocs(afterCursor, o)
    IN  SubSeq(sorted, 1, Min(n, Len(sorted)))

----------------------------------------------------------------------------
(* records.ts: getSnapshots *)

\* lines 115-143: the constraints of the query
getSnapshots_constraints(familyId, options) ==
    LET perPage == IF Has(options, "perPage") /\ options.perPage # 0
                   THEN options.perPage ELSE DefaultPerPage
        filter == IF Has(options, "filter") THEN options.filter ELSE EmptyObject
        c0 == <<Where("familyId", "==", familyId), Where("type", "==", "snapshot")>>
        c1 == IF Has(filter, "year") /\ filter.year # 0
              THEN Append(c0, Where("year", "==", filter.year)) ELSE c0
        c2 == IF Has(filter, "month") /\ filter.month # 0
              THEN Append(c1, Where("month", "==", filter.month)) ELSE c1
        c3 == IF Has(filter, "tag") /\ filter.tag # <<>> /\ trim(filter.tag) # <<>>
              THEN Append(c2, Where("tags", "array-contains", trim(filter.tag))) ELSE c2
        c4 == c3 \o <<OrderBy("timestamp", "desc"), Limit(perPage)>>
    IN  IF Has(options, "lastDoc") /\ options.lastDoc # Undefined
        THEN Append(c4, StartAfter(options.lastDoc)) ELSE c4

\* A bug getSnapshots could have: lastVisible taken from the first document
\* of the page.
getSnapshots_result_firstDoc(docs) ==
    [snapshots |-> [i \in 1..Len(docs) |-> WithId(docs[i].id, docs[i].data)],
     lastVisible |-> IF Len(docs) = 0 THEN Undefined ELSE docs[1]]

\* lines 145-153: what the call returns
getSnapshots_result(docs) ==
    [snapshots |-> [i \in 1..Len(docs) |-> WithId(docs[i].id, docs[i].data)],
     lastVisible |-> IF Len(docs) = 0 THEN Undefined ELSE docs[Len(docs)]]

\* A bug getSnapshots could have: the tag filter is not trimmed.
getSnapshots_untrimmed(store, familyId, options) ==
    LET cs == getSnapshots_constraints(familyId, options)
        untrimmed == [i \in 1..Len(cs) |->
                         IF cs[i].kind = "where" /\ cs[i].field = "tags"
                         THEN Where("tags", "array-contains", options.filter.tag)
                         ELSE cs[i]]
    IN  getSnapshots_result(getDocs(store, untrimmed))

\* lines 103-154
getSnapshots(store, familyId, options) ==
    getSnapshots_result(getDocs(store, getSnapshots_constraints(familyId, options)))

----------------------------------------------------------------------------
(* A caller of getSnapshots over a collection that does not change *)

QueryProfile == [displayName |-> "Amy", familyIDs |-> <<"f1", "f2">>]

\* a document as addRecord stores it
StoredAs(recordData) ==
    ResolveSentinels(addRecord_dataToSave(recordData, QueryProfile),
                     CHOOSE t \in ServerTimes : TRUE)

SnapshotInput(familyId, tags) ==
    [type |-> "snapshot", familyId |-> familyId, creatorId |-> "u1",
     imageUrl |-> "url", tags |-> tags]

\* snapshots of two households with a client Timestamp (so with year and
\* month), one stamped by the server (without), one of another type
QueryPool ==
    {StoredAs(Merge(SnapshotInput("f1", <<TagA>>), [timestamp |-> Timestamp(0)])),
     StoredAs(Merge(SnapshotInput("f1", <<TagA, TagB>>),
                    [timestamp |-> Timestamp(TicksPerYear - 1)])),
     StoredAs(Merge(SnapshotInput("f1", <<>>), [timestamp |-> Timestamp(TicksPerYear - 1)])),
     StoredAs(SnapshotInput("f1", <<TagB>>)),
     StoredAs(Merge(SnapshotInput("f2", <<TagA>>),
                    [timestamp |-> Timestamp(TicksPerYear - 1)])),
     StoredAs([type |-> "feeding", familyId |-> "f1", creatorId |-> "u1", amount |-> 90,
               timestamp |-> Timestamp(0)])}

SmallStores ==
    UNION {[{ToString(i) : i \in 1..k} -> QueryPool] : k \in 0..MaxQueryDocs}

\* collections of DefaultPerPage and more snapshots of one household, three
\* timestamps among them
LargeStores ==
    {[id \in {ToString(i) : i \in 1..n} |->
        StoredAs(Merge(SnapshotInput("f1", <<TagA>>),
                       [timestamp |-> Timestamp((IdRank(id) % 3) * TicksPerMonth)]))] :
     n \in DefaultPerPage..(DefaultPerPage + MaxExtraDocs)}

QueryFilters ==
    {EmptyObject, [year |-> 0], [year |-> EpochYear], [month |-> MonthsPerYear],
     [year |-> EpochYear, month |-> MonthsPerYear], [tag |-> <<" ", "a">>],
     [tag |-> <<" ">>], [year |-> EpochYear, month |-> 0, tag |-> <<"b", " ">>]}

QueryOptions ==
    LET pages == {EmptyObject} \cup {[perPage |-> n] : n \in 0..MaxPerPage}
        filters == {EmptyObject} \cup {[filter |-> f] : f \in QueryFilters}
    IN  {Merge(pg, f) : pg \in pages, f \in filters}

\* the first call of a paging: no lastDoc
FirstPage ==
    /\ qPages = <<>>
    /\ \E familyId \in {"f1", "f2"}, options \in QueryOptions :
        /\ qArgs' = [familyId |-> familyId, options |-> options]
        /\ qPages' = <<getSnapshots(records, familyId, options)>>
    /\ UNCHANGED <<records, lastCall, modalVars, pageVars>>

\* a call with lastDoc set to some document snapshot of the collection
PageAfter ==
    /\ qPages = <<>>
    /\ \E familyId \in {"f1", "f2"}, options \in QueryOptions, id \in DOMAIN records :
        LET from == Merge(options, [lastDoc |-> [id |-> id, data |-> records[id]]])
        IN  /\ qArgs' = [familyId |-> familyId, options |-> from]
            /\ qPages' = <<getSnapshots(records, familyId, from)>>
    /\ UNCHANGED <<records, lastCall, modalVars, pageVars>>

\* the next call of the paging: lastDoc is the lastVisible of the previous one
NextPage ==
    /\ qPages # <<>>
    /\ qPages[Len(qPages)].lastVisible # Undefined
    /\ qPages' = Append(qPages,
                        getSnapshots(records, qArgs.familyId,
                                     Merge(qArgs.options,
                                           [lastDoc |-> qPages[Len(qPages)].lastVisible])))
    /\ UNCHANGED <<records, lastCall, modalVars, qArgs, pageVars>>

InitQuery ==
    /\ records \in SmallStores \cup LargeStores
    /\ ApiIdle
    /\ auth = [user |-> Null, userProfile |-> Null]
    /\ ModalIdle
    /\ QueryIdle
    /\ PagesIdle

NextQuery ==
    \/ FirstPage
    \/ PageAfter
    \/ NextPage

SpecQuery == InitQuery /\ [][NextQuery]_vars

----------------------------------------------------------------------------
(* Claims about getSnapshots, checked under SpecQuery *)

\* the text between the first and the last character that is not whitespace
Stripped(str) ==
    LET solid == {i \in 1..Len(str) : str[i] \notin WhitespaceChars}
    IN  IF solid = {} THEN <<>>
        ELSE SubSeq(str, CHOOSE i \in solid : \A j \in solid : i <= j,
                         CHOOSE i \in solid : \A j \in solid : i >= j)

\* the options of the last call of the paging
LastOptions ==
    IF Len(qPages) = 1 THEN qArgs.options
    ELSE Merge(qArgs.options, [lastDoc |-> qPages[Len(qPages) - 1].lastVisible])

LastPage == qPages[Len(qPages)]

PerPageOf(options) ==
    IF Has(options, "perPage") /\ options.perPage # 0 THEN options.perPage
    ELSE DefaultPerPage

\* the documents of the family that are snapshots and match every supplied filter
MatchingIds(familyId, options) ==
    LET filter == IF Has(options, "filter") THEN options.filter ELSE EmptyObject
    IN  {id \in DOMAIN records :
            /\ records[id].familyId = familyId
            /\ records[id].type = "snapshot"
            /\ (Has(filter, "year") /\ filter.year # 0)
                  => (Has(records[id], "year") /\ records[id].year = filter.year)
            /\ (Has(filter, "month") /\ filter.month # 0)
                  => (Has(records[id], "month") /\ records[id].month = filter.month)
            /\ (Has(filter, "tag") /\ Stripped(filter.tag) # <<>>)
                  => /\ Has(records[id], "tags")
                     /\ \E i \in 1..Len(records[id].tags) :
                           records[id].tags[i] = Stripped(filter.tag)}

TimeOf(id) == records[id].timestamp.seconds

\* page holds the first n of the candidates in descending timestamp order
IsFirstPageOf(page, candidates, n) ==
    /\ Len(page) = Min(n, Cardinality(candidates))
    /\ \A i \in 1..Len(page) :
          /\ page[i].id \in candidates
          /\ page[i] = WithId(page[i].id, records[page[i].id])
    /\ \A i, j \in 1..Len(page) :
          i < j => (page[i].id # page[j].id /\ TimeOf(page[i].id) >= TimeOf(page[j].id))
    /\ \A id \in candidates \ {page[i].id : i \in 1..Len(page)} :
          \A i \in 1..Len(page) : TimeOf(page[i].id) >= TimeOf(id)

\* C2 as stated: for every collection, familyId and options, getSnapshots
\* returns exactly the first perPage (20 when perPage is absent or 0) records,
\* in descending timestamp order, among the records of the family that are
\* snapshots and match every supplied filter (year, month, trimmed tag; an
\* absent, 0 or blank filter field imposes no restriction).
C2_FirstPageOfMatching ==
    qPages # <<>> =>
        IsFirstPageOf(LastPage.snapshots, MatchingIds(qArgs.familyId, LastOptions),
                      PerPageOf(LastOptions))

\* the matching documents that follow options.lastDoc in the order of the
\* query (descending timestamp, equal timestamps by descending document name);
\* every matching document when lastDoc is absent
CandidateIds(familyId, options) ==
    {id \in MatchingIds(familyId, options) :
        (Has(options, "lastDoc") /\ options.lastDoc # Undefined) =>
            LET cursor == options.lastDoc
            IN  \/ TimeOf(id) < cursor.data.timestamp.seconds
                \/ /\ TimeOf(id) = cursor.data.timestamp.seconds
                   /\ IdRank(id) < IdRank(cursor.id)}

\* C2 amended: getSnapshots returns exactly the first perPage (20 when absent
\* or 0) records, in descending timestamp order, among the matching records
\* that follow options.lastDoc in the order of the query; among all the
\* matching records when lastDoc is absent.
C2_FirstPageAfterCursor ==
    qPages # <<>> =>
        IsFirstPageOf(LastPage.snapshots, CandidateIds(qArgs.familyId, LastOptions),
                      PerPageOf(LastOptions))

\* C2 witness: a call with a lastDoc and a tag filter to trim returned a full
\* page and left matching records for a later page.
C2_Witness ==
    /\ qPages # <<>>
    /\ Has(LastOptions, "lastDoc")
    /\ Has(LastOptions, "filter")
    /\ Has(LastOptions.filter, "tag")
    /\ LastOptions.filter.tag # Stripped(LastOptions.filter.tag)
    /\ Stripped(LastOptions.filter.tag) # <<>>
    /\ Len(LastPage.snapshots) = PerPageOf(LastOptions)
    /\ Cardinality(CandidateIds(qArgs.familyId, LastOptions)) > Len(LastPage.snapshots)
    /\ CandidateIds(qArgs.familyId, LastOptions) # MatchingIds(qArgs.familyId, LastOptions)

\* the ids of all the pages, in the order returned
RECURSIVE PagedIds(_)
PagedIds(pages) ==
    IF pages = <<>> THEN <<>>
    ELSE PagedIds(SubSeq(pages, 1, Len(pages) - 1))
            \o [i \in 1..Len(pages[Len(pages)].snapshots) |->
                   pages[Len(pages)].snapshots[i].id]

\* C3: with the collection unchanged, a first call without lastDoc followed by
\* calls with lastDoc set to the previous lastVisible yields pages that are
\* pairwise disjoint, each continuing after the previous one in descending
\* timestamp order; the pages up to the first empty page contain every
\* matching snapshot exactly once; lastVisible is undefined exactly when the
\* page is empty.
C3_PagesPartitionMatching ==
    (qPages # <<>> /\ ~Has(qArgs.options, "lastDoc")) =>
        LET all == PagedIds(qPages)
            matching == MatchingIds(qArgs.familyId, qArgs.options)
        IN  /\ \A i, j \in 1..Len(all) :
                  i < j => (all[i] # all[j] /\ TimeOf(all[i]) >= TimeOf(all[j]))
            /\ \A i \in 1..Len(all) : all[i] \in matching
            /\ LastPage.snapshots = <<>> => {all[i] : i \in 1..Len(all)} = matching
            /\ \A p \in 1..Len(qPages) :
                  /\ (qPages[p].lastVisible = Undefined) <=> (qPages[p].snapshots = <<>>)
                  /\ qPages[p].snapshots # <<>> =>
                        qPages[p].lastVisible.id =
                            qPages[p].snapshots[Len(qPages[p].snapshots)].id
                  /\ p < Len(qPages) => qPages[p].snapshots # <<>>

\* C3 witness: a paging of three pages or more has reached its empty page,
\* and two records of equal timestamp fell on different pages.
C3_Witness ==
    /\ Len(qPages) >= 3
    /\ ~Has(qArgs.options, "lastDoc")
    /\ LastPage.snapshots = <<>>
    /\ TimeOf(qPages[1].lastVisible.id) = TimeOf(qPages[2].snapshots[1].id)

----------------------------------------------------------------------------
(* Claims about AddRecordModal and the records it writes, checked under Spec *)

\* C1: every record of type 'snapshot' that addRecord writes to the collection
\* (those of the modal included) is stored with year and month equal to the
\* calendar year and the 1-based month (1..12) of its timestamp.
C1_SnapshotsCarryYearMonth ==
    \A id \in DOMAIN records :
        records[id].type = "snapshot" =>
            /\ Has(records[id], "year")
            /\ Has(records[id], "month")
            /\ records[id].year = EpochYear + (records[id].timestamp.seconds \div TicksPerYear)
            /\ records[id].month \in 1..MonthsPerYear
            /\ records[id].month =
                  ((records[id].timestamp.seconds \div TicksPerMonth) % MonthsPerYear) + 1

\* The backend operations a submit of this modal has to complete.
ExpectedOps ==
    IF recordType = "snapshot" THEN <<"uploadImage", "addRecord">>
    ELSE IF existingRecord # Null THEN <<"updateRecord">>
    ELSE <<"addRecord">>

\* A step in which handleSubmit returns: from its last await, or at once.
SubmitReturns ==
    \/ submitPc # "idle" /\ submitPc' = "idle"
    \/ submitClicked' /\ submitPc' = "idle"

\* C5: handleSubmit calls onClose if and only if every backend operation of
\* that submit (image upload then addRecord for a snapshot, addRecord or
\* updateRecord otherwise) completed successfully; when the identity cannot be
\* verified, the snapshot image is missing or a backend call fails, onClose is
\* not called and the error state is set.
C5_CloseIffBackendSucceeded ==
    [][SubmitReturns =>
         LET closed == onCloseCalls' = Append(onCloseCalls, "submit")
             allOk == backendLog' = [i \in 1..Len(ExpectedOps) |->
                                        [op |-> ExpectedOps[i], ok |-> TRUE]]
         IN  /\ closed <=> allOk
             /\ ~closed => (onCloseCalls' = onCloseCalls /\ error' # NoError)
      ]_vars

\* C5 witness: a snapshot submit whose upload succeeded and whose addRecord
\* failed has returned without calling onClose, the error set.
C5_Witness ==
    /\ submitPc = "idle"
    /\ recordType = "snapshot"
    /\ backendLog = <<[op |-> "uploadImage", ok |-> TRUE], [op |-> "addRecord", ok |-> FALSE]>>
    /\ onCloseCalls = <<>>
    /\ error = ErrAddFailed
    /\ ~isSubmitting

\* C9: when the modal is opened with an existingRecord (any record type,
\* snapshot included), a successful submit updates that record through
\* updateRecord and never adds a new document.
C9_EditSubmitUpdates ==
    (/\ existingRecord # Null
     /\ onCloseCalls # <<>>
     /\ onCloseCalls[Len(onCloseCalls)] = "submit")
        => /\ backendLog = <<[op |-> "updateRecord", ok |-> TRUE]>>
           /\ \A i \in 1..Len(backendLog) : backendLog[i].op # "addRecord"

\* the fields an update of a record of the type may carry
UpdatableFields(type) ==
    {"notes"} \cup
        CASE type = "feeding" -> {"amount"}
          [] type = "solid-food" -> {"foodItems", "reaction"}
          [] type = "measurement" -> {"measurementType", "value", "timestamp"}
          [] OTHER -> {}

\* C12: updating an existing record through the modal never changes its type,
\* familyId, creatorId, creatorName or babyId: the data passed to updateRecord
\* holds only notes and the fields of the modal's record type (amount for
\* feeding; foodItems and reaction for solid-food; measurementType, value and
\* timestamp for measurement).
C12_UpdateKeepsIdentity ==
    [][(submitPc = "updateRecord" /\ submitPc' = "idle") =>
         LET id == existingRecord.id
         IN  /\ lastCall'.op = "updateRecord"
             /\ lastCall'.recordId = id
             /\ DOMAIN lastCall'.updatedData \subseteq UpdatableFields(recordType)
             /\ \A other \in DOMAIN records \ {id} :
                   other \in DOMAIN records' /\ records'[other] = records[other]
             /\ DOMAIN records' = DOMAIN records
             /\ id \in DOMAIN records =>
                   /\ DOMAIN records'[id] \subseteq
                         DOMAIN records[id] \cup UpdatableFields(recordType)
                   /\ \A f \in DOMAIN records[id] \ UpdatableFields(recordType) :
                         f \in DOMAIN records'[id] /\ records'[id][f] = records[id][f]
                   /\ \A f \in {"type", "familyId", "creatorId", "creatorName", "babyId"} :
                         /\ f \in DOMAIN records[id] <=> f \in DOMAIN records'[id]
                         /\ f \in DOMAIN records[id] => records'[id][f] = records[id][f]
      ]_vars

\* C12 witness: the modal updated a measurement record, changing its notes,
\* and closed.
C12_Witness ==
    /\ lastCall.op = "updateRecord"
    /\ lastCall.thrown = NoError
    /\ recordType = "measurement"
    /\ existingRecord # Null
    /\ onCloseCalls = <<"submit">>
    /\ existingRecord.id \in DOMAIN records
    /\ records[existingRecord.id].notes # existingRecord.notes
    /\ records[existingRecord.id].type = "measurement"

\* the calls of addRecord, updateRecord and deleteRecord of the modal that
\* have not settled
OpsInFlight ==
    (IF submitPc \in {"addRecord", "updateRecord"} THEN 1 ELSE 0) + deletesInFlight

\* C13: for one instance of the modal, under any interleaving of the save,
\* delete and cancel buttons (each usable only while not disabled), at most
\* one backend operation on the record is in flight at a time and onClose is
\* called at most once.
C13_OneOperationOneClose ==
    /\ OpsInFlight <= 1
    /\ Len(onCloseCalls) <= 1

----------------------------------------------------------------------------
(* Direct callers of records.ts: the arguments they may pass *)

UserProfiles == {Null, [displayName |-> "Amy", familyIDs |-> <<"f1", "f2">>]}

\* Partial<RecordData> values: with and without the ids, with and without a
\* client Timestamp, of a snapshot and of another type.
RecordDataInputs ==
    LET ids == {EmptyObject, [familyId |-> "f1"],
                [familyId |-> "", creatorId |-> "u1"],
                [familyId |-> "f1", creatorId |-> "u1"]}
        stamps == {EmptyObject, [timestamp |-> Timestamp(TicksPerYear - 1)]}
        bodies == {[type |-> "snapshot", imageUrl |-> "url", tags |-> <<TagA>>],
                   [type |-> "feeding", amount |-> 90]}
    IN  {Merge(Merge(b, i), s) : b \in bodies, i \in ids, s \in stamps}

UpdateInputs == {EmptyObject, [notes |-> "edited", amount |-> 120]}

ApiAddRecord ==
    \E recordData \in RecordDataInputs, userProfile \in UserProfiles,
       env \in AddEnvs(records) :
        LET r == addRecord(records, recordData, userProfile, env)
        IN  /\ records' = r.records
            /\ lastCall' = [op |-> "addRecord", recordData |-> recordData,
                            userProfile |-> userProfile, dbOk |-> env.dbOk,
                            thrown |-> r.thrown, dbCalls |-> r.dbCalls]
            /\ UNCHANGED <<modalVars, queryVars, pageVars>>

ApiUpdateRecord ==
    \E recordId \in DocIds \cup {EmptyId}, updatedData \in UpdateInputs,
       env \in WriteEnvs :
        LET r == updateRecord(records, recordId, updatedData, env)
        IN  /\ records' = r.records
            /\ lastCall' = [op |-> "updateRecord", recordId |-> recordId,
                            updatedData |-> updatedData,
                            thrown |-> r.thrown, dbCalls |-> r.dbCalls]
            /\ UNCHANGED <<modalVars, queryVars, pageVars>>

ApiDeleteRecord ==
    \E recordId \in DocIds \cup {EmptyId}, env \in WriteEnvs :
        LET r == deleteRecord(records, recordId, env)
        IN  /\ records' = r.records
            /\ lastCall' = [op |-> "deleteRecord", recordId |-> recordId,
                            thrown |-> r.thrown, dbCalls |-> r.dbCalls]
            /\ UNCHANGED <<modalVars, queryVars, pageVars>>

InitApi ==
    /\ records = NoRecords
    /\ ApiIdle
    /\ auth = [user |-> Null, userProfile |-> Null]
    /\ ModalIdle
    /\ QueryIdle
    /\ PagesIdle

NextApi ==
    \/ ApiAddRecord
    \/ ApiUpdateRecord
    \/ ApiDeleteRecord

SpecApi == InitApi /\ [][NextApi]_vars

----------------------------------------------------------------------------
(* Claims about the direct calls of records.ts, checked under SpecApi *)

ArgsInvalid(c) ==
    \/ Falsy(c.recordData, "familyId")
    \/ Falsy(c.recordData, "creatorId")
    \/ c.userProfile = Null

\* C4: addRecord called with recordData lacking familyId or creatorId, or with
\* a null userProfile, throws before any database call and leaves the
\* collection unchanged; when validation passes and the database write fails
\* it throws 'Failed to add record.' and no record is added.
C4_AddRecordValidates ==
    [][LET c == lastCall'
       IN  c.op = "addRecord" =>
             /\ ArgsInvalid(c) =>
                   /\ c.thrown \in {ErrIdsRequired, ErrNoProfile}
                   /\ c.dbCalls = 0
                   /\ records' = records
             /\ (~ArgsInvalid(c) /\ ~c.dbOk) =>
                   /\ c.thrown = ErrAddFailed
                   /\ records' = records
      ]_vars

\* C4 witness: addRecord was called with a null userProfile while the
\* collection held a document, and it threw without a database call.
C4_Witness ==
    /\ lastCall.op = "addRecord"
    /\ lastCall.userProfile = Null
    /\ ~Falsy(lastCall.recordData, "familyId")
    /\ ~Falsy(lastCall.recordData, "creatorId")
    /\ lastCall.thrown = ErrNoProfile
    /\ lastCall.dbCalls = 0
    /\ records # NoRecords

\* C7: updateRecord and deleteRecord with an empty recordId throw before any
\* database call; whenever either throws the collection is unchanged; a
\* successful updateRecord changes only the document with that id and only the
\* fields present in updatedData; a successful deleteRecord removes only the
\* document with that id.
C7_UpdateDeleteFrame ==
    [][LET c == lastCall'
       IN  c.op \in {"updateRecord", "deleteRecord"} =>
             /\ c.recordId = EmptyId => (c.thrown # NoError /\ c.dbCalls = 0)
             /\ c.thrown # NoError => records' = records
             /\ (c.op = "updateRecord" /\ c.thrown = NoError) =>
                   /\ c.recordId \in DOMAIN records
                   /\ DOMAIN records' = DOMAIN records
                   /\ \A id \in DOMAIN records \ {c.recordId} : records'[id] = records[id]
                   /\ DOMAIN records'[c.recordId] =
                         DOMAIN records[c.recordId] \cup DOMAIN c.updatedData
                   /\ \A f \in DOMAIN records[c.recordId] \ DOMAIN c.updatedData :
                         records'[c.recordId][f] = records[c.recordId][f]
             /\ (c.op = "deleteRecord" /\ c.thrown = NoError) =>
                   /\ DOMAIN records' = DOMAIN records \ {c.recordId}
                   /\ \A id \in DOMAIN records' : records'[id] = records[id]
      ]_vars

\* C7 witness: an updateRecord with fields to set succeeded while the
\* collection held another document as well.
C7_Witness ==
    /\ lastCall.op = "updateRecord"
    /\ lastCall.thrown = NoError
    /\ lastCall.updatedData # EmptyObject
    /\ lastCall.recordId \in DOMAIN records
    /\ Cardinality(DOMAIN records) = 2
    /\ records[lastCall.recordId].notes = "edited"

----------------------------------------------------------------------------
(* The tags of a snapshot: typed into the modal, parsed by handleSubmit,   *)
(* joined again by useEffect when the modal opens on the stored record     *)

MaxTagsLen == 3     \* characters of a tags input that is typed in

TagChars == {"a", "b"} \cup SeparatorChars

TagsTexts == UNION {[1..n -> TagChars] : n \in 0..MaxTagsLen}

\* next.config.mjs line 148: handleSubmit parses the tags input of a snapshot
StoreTags ==
    /\ tagsStored = Null
    /\ tagsStored' = [tags |-> parseTags(tagsText)]
    /\ UNCHANGED <<tagsText, tagsReopened>>
    /\ UNCHANGED <<records, lastCall, modalVars, queryVars, fabVars, babyVars>>

\* next.config.mjs lines 65-68: the modal opens on the record that was stored
ReopenTags ==
    /\ tagsStored # Null
    /\ tagsReopened' = tagsStored
    /\ tagsText' = join(tagsStored.tags)
    /\ tagsStored' = Null
    /\ UNCHANGED <<records, lastCall, modalVars, queryVars, fabVars, babyVars>>

InitTags ==
    /\ records = NoRecords
    /\ ApiIdle
    /\ auth = [user |-> Null, userProfile |-> Null]
    /\ ModalIdle
    /\ QueryIdle
    /\ FabIdle /\ BabyIdle
    /\ tagsText \in TagsTexts
    /\ tagsStored = Null
    /\ tagsReopened = Null

NextTags ==
    \/ StoreTags
    \/ ReopenTags

SpecTags == InitTags /\ [][NextTags]_vars

\* list holds, in the order of the text, the maximal runs of characters of
\* text that are not separators
IsRunsOf(list, text) ==
    LET solid(i) == text[i] \notin SeparatorChars
        starts == {i \in 1..Len(text) : solid(i) /\ (i = 1 \/ ~solid(i - 1))}
        endOf(i) == CHOOSE j \in i..Len(text) :
                        /\ \A k \in i..j : solid(k)
                        /\ j = Len(text) \/ ~solid(j + 1)
        rank(i) == Cardinality({st \in starts : st <= i})
    IN  /\ Len(list) = Cardinality(starts)
        /\ \A i \in starts : list[rank(i)] = SubSeq(text, i, endOf(i))

\* C8: the tag list the modal stores for a snapshot is exactly the maximal
\* runs of characters of the tags input that are not an ASCII comma, a
\* full-width comma or whitespace, in input order; it holds no empty tag and
\* no tag with a separator in it; and parsing the ', '-joined tags of a
\* record the modal stored gives the same tag list again.
C8_TagsAreMaximalRuns ==
    tagsStored # Null =>
        /\ IsRunsOf(tagsStored.tags, tagsText)
        /\ \A i \in 1..Len(tagsStored.tags) :
              /\ tagsStored.tags[i] # <<>>
              /\ \A k \in 1..Len(tagsStored.tags[i]) :
                    tagsStored.tags[i][k] \notin SeparatorChars
        /\ tagsReopened # Null => tagsStored.tags = tagsReopened.tags

\* C8 witness: a list of two tags was stored, joined and parsed again.
C8_Witness ==
    /\ tagsStored # Null
    /\ tagsReopened # Null
    /\ Len(tagsReopened.tags) = 2
    /\ tagsText = tagsReopened.tags[1] \o <<",", " ">> \o tagsReopened.tags[2]

----------------------------------------------------------------------------
(* FloatingActionButton (FloatingActionButton.tsx) *)

MaxClicks == 4      \* clicks on the sub-buttons

\* lines 23, 29, 32, 35: the types of the sub-buttons
SubButtonTypes == {"snapshot", "sleep", "diaper", "feeding"}

\* A bug the button could have: the menu stays as it was.
handleSubButtonClick_keepsMenu(type) ==
    [emitted |-> Append(emitted, type), isOpen |-> isOpen]

\* lines 15-18: onAddRecord(type); setIsOpen(false)
handleSubButtonClick(type) ==
    [emitted |-> Append(emitted, type), isOpen |-> FALSE]

\* a click on a sub-button
ClickSubButton ==
    /\ Len(emitted) < MaxClicks
    /\ \E type \in SubButtonTypes :
        LET after == handleSubButtonClick(type)
        IN  /\ emitted' = after.emitted
            /\ isOpen' = after.isOpen
            /\ fabClick' = type
    /\ wasOpen' = isOpen
    /\ UNCHANGED <<records, lastCall, modalVars, queryVars, tagVars, babyVars>>

\* line 39: a click on the main button
ClickMainButton ==
    /\ isOpen' = ~isOpen
    /\ fabClick' = "main"
    /\ wasOpen' = isOpen
    /\ UNCHANGED emitted
    /\ UNCHANGED <<records, lastCall, modalVars, queryVars, tagVars, babyVars>>

InitFab ==
    /\ records = NoRecords
    /\ ApiIdle
    /\ auth = [user |-> Null, userProfile |-> Null]
    /\ ModalIdle
    /\ QueryIdle
    /\ PagesIdle

NextFab ==
    \/ ClickSubButton
    \/ ClickMainButton

SpecFab == InitFab /\ [][NextFab]_vars

\* C6: a click on a sub-button calls onAddRecord exactly once, with the type
\* of that button, and leaves isOpen false whatever it was; a click on the
\* main button toggles isOpen and calls nothing; only snapshot, sleep, diaper
\* and feeding are emitted.
C6_ButtonClicks ==
    [][/\ fabClick' \in SubButtonTypes =>
             (emitted' = Append(emitted, fabClick') /\ isOpen' = FALSE)
       /\ fabClick' = "main" => (emitted' = emitted /\ isOpen' = ~isOpen)
       /\ fabClick' \in SubButtonTypes \cup {"main"}
       /\ \A i \in 1..Len(emitted') :
             emitted'[i] \in {"snapshot", "sleep", "diaper", "feeding"}]_fabVars

\* C6 witness: each of the four types has been emitted, the last one by a
\* click while the menu was open.
C6_Witness ==
    /\ {emitted[i] : i \in 1..Len(emitted)} = {"snapshot", "sleep", "diaper", "feeding"}
    /\ fabClick = "feeding"
    /\ wasOpen
    /\ ~isOpen

----------------------------------------------------------------------------
(* EditBabyProfilePage (page.tsx) over the profile document of baby_01.    *)
(* useAuth() has settled (loading is false) and does not change while the  *)
(* page is mounted.                                                        *)

PageErrLoadFailed == "reading the baby profile failed"      \* line 56
PageErrUnverified == "cannot verify the user identity"      \* line 81
PageErrSaveFailed == "saving failed, try again later"       \* line 105

\* a JavaScript Date
DateAt(t) == [time |-> t]
\* lines 10-12: the UTC calendar day of a Date, as a day number
page_dateToString(date) == date.time \div TicksPerDay
\* line 91: new Date('yyyy-MM-dd') is midnight UTC of that day
NewDate(day) == DateAt(day * TicksPerDay)

\* '@/lib/babies': the profile of the document, null when there is none
getBabyProfile(doc) == doc
\* '@/lib/babies': writes the fields of data into the document
updateBabyProfile(doc, data) == IF doc = Null THEN data ELSE Merge(doc, data)

\* what the inputs of the form can be set to
NameInputs == {"Bo", "Cy"}
BirthDateInputs == {<<0>>, <<1>>}
GenderInputs == {"boy", "girl"}
WeeksInputs == {38, DefaultGestationalAgeWeeks}

\* the profile documents the page can find when it loads
StoredProfiles ==
    {[name |-> "Bo", birthDate |-> DateAt(TicksPerDay + 1), gender |-> "girl",
      gestationalAgeWeeks |-> 38, familyId |-> "f1"]}

\* lines 111-113: the page shows its buttons and its form
PageInteractive == route = BabyPageRoute /\ ~isLoading

\* lines 35-42: useEffect after the first render
LoadStart ==
    /\ loadPc = "mounted"
    /\ IF auth.user = Null
       THEN /\ route' = "/"
            /\ loadPc' = "done"
       ELSE IF auth.userProfile # Null
       THEN /\ loadPc' = "getBabyProfile"
            /\ UNCHANGED route
       ELSE /\ loadPc' = "done"
            /\ UNCHANGED route
    /\ isLoading' = TRUE
    /\ UNCHANGED <<babyDoc, isEditing, babyProfile, name, birthDate, gender,
                   gestationalAgeWeeks, isSaving, pageError, savePc, saveJob,
                   docBeforeSave>>
    /\ UNCHANGED <<records, lastCall, modalVars, queryVars, tagVars, fabVars>>

\* lines 43-58: getBabyProfile of useEffect settles
LoadSettles ==
    /\ loadPc = "getBabyProfile"
    /\ \E ok \in BOOLEAN :
        LET profile == getBabyProfile(babyDoc)
        IN  IF ok /\ profile # Null
            THEN /\ babyProfile' = profile
                 /\ name' = profile.name
                 /\ birthDate' = <<page_dateToString(profile.birthDate)>>
                 /\ gender' = profile.gender
                 /\ gestationalAgeWeeks' = profile.gestationalAgeWeeks
                 /\ UNCHANGED <<isEditing, pageError>>
            ELSE IF ok
            THEN /\ isEditing' = TRUE
                 /\ UNCHANGED <<babyProfile, name, birthDate, gender,
                                gestationalAgeWeeks, pageError>>
            ELSE /\ pageError' = PageErrLoadFailed
                 /\ UNCHANGED <<babyProfile, name, birthDate, gender,
                                gestationalAgeWeeks, isEditing>>
    /\ isLoading' = FALSE
    /\ loadPc' = "done"
    /\ UNCHANGED <<babyDoc, route, isSaving, savePc, saveJob, docBeforeSave>>
    /\ UNCHANGED <<records, lastCall, modalVars, queryVars, tagVars, fabVars>>

\* lines 62-64, button of line 159
HandleEdit ==
    /\ PageInteractive
    /\ ~isEditing
    /\ isEditing' = TRUE
    /\ UNCHANGED <<babyDoc, route, babyProfile, name, birthDate, gender,
                   gestationalAgeWeeks, isLoading, isSaving, pageError, loadPc,
                   savePc, saveJob, docBeforeSave>>
    /\ UNCHANGED <<records, lastCall, modalVars, queryVars, tagVars, fabVars>>

\* line 125
SetName ==
    /\ PageInteractive
    /\ isEditing
    /\ \E v \in NameInputs : name' = v
    /\ UNCHANGED <<babyDoc, route, isEditing, babyProfile, birthDate, gender,
                   gestationalAgeWeeks, isLoading, isSaving, pageError, loadPc,
                   savePc, saveJob, docBeforeSave>>
    /\ UNCHANGED <<records, lastCall, modalVars, queryVars, tagVars, fabVars>>

\* line 129
SetBirthDate ==
    /\ PageInteractive
    /\ isEditing
    /\ \E v \in BirthDateInputs : birthDate' = v
    /\ UNCHANGED <<babyDoc, route, isEditing, babyProfile, name, gender,
                   gestationalAgeWeeks, isLoading, isSaving, pageError, loadPc,
                   savePc, saveJob, docBeforeSave>>
    /\ UNCHANGED <<records, lastCall, modalVars, queryVars, tagVars, fabVars>>

\* line 133
SetGender ==
    /\ PageInteractive
    /\ isEditing
    /\ \E v \in GenderInputs : gender' = v
    /\ UNCHANGED <<babyDoc, route, isEditing, babyProfile, name, birthDate,
                   gestationalAgeWeeks, isLoading, isSaving, pageError, loadPc,
                   savePc, saveJob, docBeforeSave>>
    /\ UNCHANGED <<records, lastCall, modalVars, queryVars, tagVars, fabVars>>

\* line 137
SetGestationalAgeWeeks ==
    /\ PageInteractive
    /\ isEditing
    /\ \E v \in WeeksInputs : gestationalAgeWeeks' = v
    /\ UNCHANGED <<babyDoc, route, isEditing, babyProfile, name, birthDate, gender,
                   isLoading, isSaving, pageError, loadPc, savePc, saveJob,
                   docBeforeSave>>
    /\ UNCHANGED <<records, lastCall, modalVars, queryVars, tagVars, fabVars>>

\* lines 66-76, button of line 141 (never disabled)
HandleCancel ==
    /\ PageInteractive
    /\ isEditing
    /\ IF babyProfile # Null
       THEN /\ name' = babyProfile.name
            /\ birthDate' = <<page_dateToString(babyProfile.birthDate)>>
            /\ gender' = babyProfile.gender
            /\ gestationalAgeWeeks' = babyProfile.gestationalAgeWeeks
            /\ isEditing' = FALSE
            /\ UNCHANGED route
       ELSE /\ route' = "/dashboard"
            /\ UNCHANGED <<name, birthDate, gender, gestationalAgeWeeks, isEditing>>
    /\ UNCHANGED <<babyDoc, babyProfile, isLoading, isSaving, pageError, loadPc,
                   savePc, saveJob, docBeforeSave>>
    /\ UNCHANGED <<records, lastCall, modalVars, queryVars, tagVars, fabVars>>

\* line 80
SaveUnverified(a) ==
    \/ a.user = Null
    \/ a.userProfile = Null
    \/ ~Has(a.userProfile, "familyIDs")

\* lines 89-95
profileData(a) ==
    [name |-> name,
     birthDate |-> NewDate(birthDate[1]),
     gender |-> gender,
     gestationalAgeWeeks |-> gestationalAgeWeeks,
     familyId |-> IF Len(a.userProfile.familyIDs) = 0 THEN Undefined
                  ELSE a.userProfile.familyIDs[1]]

\* lines 78-96: the form is submitted (its button is disabled while saving,
\* and the name and the date are required); handleSave runs to its first await
SaveClick ==
    /\ PageInteractive
    /\ isEditing
    /\ ~isSaving
    /\ name # "" /\ birthDate # <<>>
    /\ docBeforeSave' = babyDoc
    /\ IF SaveUnverified(auth)
       THEN /\ pageError' = PageErrUnverified
            /\ UNCHANGED <<isSaving, savePc, saveJob>>
       ELSE /\ isSaving' = TRUE
            /\ pageError' = NoError
            /\ savePc' = "updateBabyProfile"
            /\ saveJob' = profileData(auth)
    /\ UNCHANGED <<babyDoc, route, isEditing, babyProfile, name, birthDate, gender,
                   gestationalAgeWeeks, isLoading, loadPc>>
    /\ UNCHANGED <<records, lastCall, modalVars, queryVars, tagVars, fabVars>>

\* lines 103-108: catch and finally of handleSave
handleSave_catch ==
    /\ pageError' = PageErrSaveFailed
    /\ isSaving' = FALSE
    /\ savePc' = "idle"
    /\ UNCHANGED <<isEditing, babyProfile>>

\* line 96: updateBabyProfile settles
UpdateProfileSettles ==
    /\ savePc = "updateBabyProfile"
    /\ \E ok \in BOOLEAN :
        IF ok
        THEN /\ babyDoc' = updateBabyProfile(babyDoc, saveJob)
             /\ savePc' = "getBabyProfile"
             /\ UNCHANGED <<pageError, isSaving, isEditing, babyProfile>>
        ELSE /\ handleSave_catch
             /\ UNCHANGED babyDoc
    /\ UNCHANGED <<route, name, birthDate, gender, gestationalAgeWeeks, isLoading,
                   loadPc, saveJob, docBeforeSave>>
    /\ UNCHANGED <<records, lastCall, modalVars, queryVars, tagVars, fabVars>>

\* lines 98-102: getBabyProfile of handleSave settles
ReadBackSettles ==
    /\ savePc = "getBabyProfile"
    /\ \E ok \in BOOLEAN :
        IF ok
        THEN /\ babyProfile' = getBabyProfile(babyDoc)
             /\ isEditing' = FALSE
             /\ isSaving' = FALSE
             /\ savePc' = "idle"
             /\ UNCHANGED pageError
        ELSE handleSave_catch
    /\ UNCHANGED <<babyDoc, route, name, birthDate, gender, gestationalAgeWeeks,
                   isLoading, loadPc, saveJob, docBeforeSave>>
    /\ UNCHANGED <<records, lastCall, modalVars, queryVars, tagVars, fabVars>>

InitBaby ==
    /\ records = NoRecords
    /\ ApiIdle
    /\ auth \in AuthStates
    /\ ModalIdle
    /\ QueryIdle
    /\ TagsIdle /\ FabIdle
    /\ babyDoc \in {Null} \cup StoredProfiles
    /\ BabyPageConstructed

NextBaby ==
    \/ LoadStart
    \/ LoadSettles
    \/ HandleEdit
    \/ SetName
    \/ SetBirthDate
    \/ SetGender
    \/ SetGestationalAgeWeeks
    \/ HandleCancel
    \/ SaveClick
    \/ UpdateProfileSettles
    \/ ReadBackSettles

SpecBaby == InitBaby /\ [][NextBaby]_vars

\* C10: whenever the save-failed error of handleSave is shown, the stored
\* profile document is as it was before the save; and when the save
\* succeeds, isEditing becomes false and babyProfile is the profile read back
\* from the store.
C10_SaveFailedMeansUnsaved ==
    /\ []((savePc = "idle" /\ pageError = PageErrSaveFailed) => babyDoc = docBeforeSave)
    /\ [][(savePc = "getBabyProfile" /\ savePc' = "idle" /\ pageError' # PageErrSaveFailed)
            => (isEditing' = FALSE /\ babyProfile' = getBabyProfile(babyDoc'))]_vars

\* the form shows the values of the profile
FormShows(profile) ==
    /\ name = profile.name
    /\ birthDate = <<page_dateToString(profile.birthDate)>>
    /\ gender = profile.gender
    /\ gestationalAgeWeeks = profile.gestationalAgeWeeks

\* C11: after the initial load and any edit, field change, cancel and save,
\* whenever the page is in view mode with a non-null babyProfile the form
\* fields name, birthDate, gender and gestationalAgeWeeks equal the values of
\* that profile; when the load finds no profile the page is in edit mode, and
\* cancel then navigates to the dashboard without writing anything.
C11_ViewModeFormIsProfile ==
    /\ []((loadPc = "done" /\ ~isEditing /\ babyProfile # Null) => FormShows(babyProfile))
    /\ [][(/\ loadPc = "getBabyProfile"
           /\ loadPc' = "done"
           /\ pageError' # PageErrLoadFailed
           /\ babyProfile' = Null) => isEditing']_vars
    /\ [][(PageInteractive /\ isEditing /\ babyProfile = Null /\ route' # route)
            => (route' = "/dashboard" /\ babyDoc' = babyDoc)]_vars

====
